---- MODULE Spec2Model ----
(***************************************************************************)
(* Model of the OSM PBF decoder of decode_data.go: the framing reader      *)
(* (readFileBlock), the header check (decodeOSMHeader), the block decoder  *)
(* (dataDecoder.Decode) and the pipeline of goroutines that Decoder.Start  *)
(* spawns (reader, n workers, serializer), with consumers calling          *)
(* Decoder.Decode.                                                         *)
(*                                                                         *)
(* Conventions.  A Go nil error is NoErr.  A Go panic unwinds through its   *)
(* callers: it is the value Panic(..) in the place of the error, which     *)
(* every caller hands on.  A panic in any goroutine terminates the         *)
(* process: crashed becomes TRUE and no action is enabled any more.  Coordinates are kept as the int64 argument of float64(..)    *)
(* (nanodegrees); tags are not modelled (extractTags and tagUnpacker are   *)
(* defined outside decode_data.go).  The input is a seekable file, so      *)
(* Seek(0, 1) returns the current offset.                                  *)
(***************************************************************************)
EXTENDS Integers, Sequences, FiniteSets, TLC

\* ------------------------------------------------------------------ bounds
\* most OSMData frames in an input file
MaxBlocks == 3
\* largest worker count handed to Start
MaxWorkers == 2
\* consumers calling Decode concurrently
NumConsumers == 2
\* Decode calls are no longer started once this many have returned io.EOF
\* from the closed channel
MaxEOF == 2
\* capacity of the serializer channel (make(chan pair, 8000)), scaled down so
\* that the serializer does block on a full channel
SerializerCap == 2

\* ------------------------------------------------------- program constants
maxBlobHeaderSize == 64 * 1024
maxBlobSize == 32 * 1024 * 1024

parseCapabilities == {"OsmSchema-V0.6", "DenseNodes"}

\* ------------------------------------------------------------------ errors
Err(k, a) == [kind |-> k, arg |-> a]
NoErr == Err("nil", "")
EOF == Err("EOF", "")
ErrUnexpectedEOF == Err("unexpected EOF", "")
\* a run-time panic, unwinding in the place of a returned error
Panic(msg) == Err("panic", msg)
IsPanic(e) == e.kind = "panic"

\* ---------------------------------------------------------------- entities
NoTime == [set |-> FALSE, units |-> 0]
\* time.Unix(0, (timestamp*dateGranularity ms).Nanoseconds()).UTC()
TimeOf(units, dateGranularity) == [set |-> TRUE, units |-> units * dateGranularity]

NoEntity == [kind |-> "nil"]

RECURSIVE Sum(_, _)
\* s[1] + .. + s[i]: the running value of a delta-decoding accumulator
Sum(s, i) == IF i = 0 THEN 0 ELSE Sum(s, i - 1) + s[i]

\* a nil byte slice
NoBytes == [ok |-> FALSE, len |-> 0, msg |-> [required_features |-> <<>>]]

\* ---------------------------------------------------------- block decoding
\* The result of a parse step: the entities appended to dec.q and whether the
\* step panicked.
Parsed(q, pnc) == [q |-> q, panic |-> pnc]

parseNodes(pb, nodes) ==
    IF Len(nodes) = 0
    THEN Parsed(<<>>, FALSE)
    ELSE LET node == nodes[1]
         IN  Parsed(<<[kind |-> "Node", id |-> node.id,
                       lat |-> pb.latOffset + pb.granularity * node.lat,
                       lon |-> pb.lonOffset + pb.granularity * node.lon,
                       ts |-> NoTime]>>,
                    TRUE)

\* mutant: the deltas are emitted as they are, without accumulating
parseDenseNodesNoDelta(pb, dn) ==
    IF Len(dn.lat) < Len(dn.id) \/ Len(dn.lon) < Len(dn.id)
    THEN Parsed(<<>>, TRUE)
    ELSE Parsed([i \in 1..Len(dn.id) |->
                   [kind |-> "Node", id |-> dn.id[i],
                    lat |-> pb.latOffset + pb.granularity * dn.lat[i],
                    lon |-> pb.lonOffset + pb.granularity * dn.lon[i],
                    ts |-> NoTime]],
                FALSE)

parseDenseNodes(pb, dn) ==
    LET ids == dn.id
        timestamps == IF dn.hasInfo THEN dn.ts ELSE <<>>
        hasTs == Len(timestamps) > 0
        bad == \E i \in 1..Len(ids) :
                  \/ i > Len(dn.lat)
                  \/ i > Len(dn.lon)
                  \/ hasTs /\ i > Len(timestamps)
    IN  IF bad
        THEN Parsed(<<>>, TRUE)
        ELSE Parsed([i \in 1..Len(ids) |->
                       [kind |-> "Node", id |-> Sum(ids, i),
                        lat |-> pb.latOffset + pb.granularity * Sum(dn.lat, i),
                        lon |-> pb.lonOffset + pb.granularity * Sum(dn.lon, i),
                        ts |-> IF hasTs
                               THEN TimeOf(Sum(timestamps, i), pb.dateGranularity)
                               ELSE NoTime]],
                    FALSE)

\* mutant: the accumulator is not reset between two ways
parseWaysCarry(pb, ways) ==
    Parsed([k \in 1..Len(ways) |->
              LET way == ways[k]
                  carry == IF k > 1
                           THEN Sum(ways[k - 1].refs, Len(ways[k - 1].refs))
                           ELSE 0
              IN  [kind |-> "Way", id |-> way.id,
                   nodeIDs |-> [i \in 1..Len(way.refs) |-> carry + Sum(way.refs, i)],
                   ts |-> NoTime]],
           FALSE)

parseWays(pb, ways) ==
    Parsed([k \in 1..Len(ways) |->
              LET way == ways[k]
              IN  [kind |-> "Way", id |-> way.id,
                   nodeIDs |-> [i \in 1..Len(way.refs) |-> Sum(way.refs, i)],
                   ts |-> IF way.hasInfo
                          THEN TimeOf(way.timestamp, pb.dateGranularity)
                          ELSE NoTime]],
           FALSE)

MemberTypeOf(t) ==
    CASE t = "NODE" -> "NodeType"
      [] t = "WAY" -> "WayType"
      [] t = "RELATION" -> "RelationType"
      [] OTHER -> "NodeType"

\* stringTable[roleIDs[index]], types[index] and roleIDs[index] are Go index
\* expressions: out of range is a run-time panic.
extractMembersPanics(stringTable, rel) ==
    \E i \in 1..Len(rel.memids) :
        \/ i > Len(rel.types)
        \/ i > Len(rel.roles_sid)
        \/ rel.roles_sid[i] < 0
        \/ rel.roles_sid[i] >= Len(stringTable)

extractMembers(stringTable, rel) ==
    [i \in 1..Len(rel.memids) |->
        [id |-> Sum(rel.memids, i),
         type |-> MemberTypeOf(rel.types[i]),
         role |-> stringTable[rel.roles_sid[i] + 1]]]

parseRelations(pb, relations) ==
    IF \E k \in 1..Len(relations) : extractMembersPanics(pb.stringtable, relations[k])
    THEN Parsed(<<>>, TRUE)
    ELSE Parsed([k \in 1..Len(relations) |->
                   LET rel == relations[k]
                   IN  [kind |-> "Relation", id |-> rel.id,
                        members |-> extractMembers(pb.stringtable, rel),
                        ts |-> IF rel.hasInfo
                               THEN TimeOf(rel.timestamp, pb.dateGranularity)
                               ELSE NoTime]],
                FALSE)

\* Run the second step after the first unless the first panicked.
Then(a, b) == IF a.panic THEN a ELSE Parsed(a.q \o b.q, b.panic)

parsePrimitiveGroup(pb, pg) ==
    Then(Then(Then(parseNodes(pb, pg.nodes),
                   parseDenseNodes(pb, pg.dense)),
              parseWays(pb, pg.ways)),
         parseRelations(pb, pg.relations))

RECURSIVE parseGroupsFrom(_, _)
parseGroupsFrom(pb, k) ==
    IF k > Len(pb.groups)
    THEN Parsed(<<>>, FALSE)
    ELSE Then(parsePrimitiveGroup(pb, pb.groups[k]), parseGroupsFrom(pb, k + 1))

parsePrimitiveBlock(pb) == parseGroupsFrom(pb, 1)

MaxInt32 == 2147483647
MinRead == 512

\* blob.GetRawSize()+bytes.MinRead in int32 arithmetic, which wraps around
AddMinRead(rawSize) ==
    IF rawSize > MaxInt32 - MinRead
    THEN ((rawSize - MaxInt32) + (MinRead - 1)) - MaxInt32 - 1
    ELSE rawSize + MinRead

\* getData: [data, err]; make([]byte, 0, c) panics when c is negative
getData(blob) ==
    IF blob.hasRaw
    THEN [data |-> blob.raw, err |-> NoErr]
    ELSE IF blob.hasZlib
    THEN IF ~blob.zlib.valid
         THEN [data |-> NoBytes, err |-> Err("zlib", "")]
         ELSE IF AddMinRead(blob.rawSize) < 0
         THEN [data |-> NoBytes, err |-> Panic("makeslice: cap out of range")]
         ELSE IF blob.zlib.plain.len # blob.rawSize
         THEN [data |-> NoBytes, err |-> Err("raw blob data size", "")]
         ELSE [data |-> blob.zlib.plain, err |-> NoErr]
    ELSE [data |-> NoBytes, err |-> Err("unknown blob data", "")]

\* proto.Unmarshal of a byte string into a message
Unmarshal(data) == IF data.ok THEN NoErr ELSE Err("proto", "")

\* dataDecoder.Decode: [objs, err, panic]
DataDecode(blob) ==
    LET d == getData(blob)
    IN  IF d.err # NoErr
        THEN [objs |-> <<>>, err |-> d.err, panic |-> IsPanic(d.err)]
        ELSE IF Unmarshal(d.data) # NoErr
        THEN [objs |-> <<>>, err |-> Unmarshal(d.data), panic |-> FALSE]
        ELSE LET r == parsePrimitiveBlock(d.data.msg)
             IN  [objs |-> r.q, err |-> NoErr, panic |-> r.panic]

RECURSIVE FirstMissing(_, _)
\* the first feature from position k on that parseCapabilities lacks, or ""
FirstMissing(features, k) ==
    IF k > Len(features) THEN ""
    ELSE IF features[k] \notin parseCapabilities THEN features[k]
    ELSE FirstMissing(features, k + 1)

decodeOSMHeader(blob) ==
    LET d == getData(blob)
    IN  IF d.err # NoErr THEN d.err
        ELSE IF Unmarshal(d.data) # NoErr THEN Unmarshal(d.data)
        ELSE IF FirstMissing(d.data.msg.required_features, 1) # ""
        THEN Err("parser does not have capability",
                 FirstMissing(d.data.msg.required_features, 1))
        ELSE NoErr

\* ------------------------------------------------------------------ framing
\* io.ReadFull of want bytes when avail bytes remain in the stream
ReadFull(avail, want) ==
    IF want = 0 THEN NoErr
    ELSE IF avail = 0 THEN EOF
    ELSE IF avail < want THEN ErrUnexpectedEOF
    ELSE NoErr

readBlobHeaderSize(fr) ==
    IF ReadFull(fr.sizeAvail, 4) # NoErr THEN ReadFull(fr.sizeAvail, 4)
    ELSE IF fr.hdrSize >= maxBlobHeaderSize THEN Err("BlobHeader size >= 64Kb", "")
    ELSE NoErr

readBlobHeader(fr) ==
    IF ReadFull(fr.hdrAvail, fr.hdrSize) # NoErr THEN ReadFull(fr.hdrAvail, fr.hdrSize)
    ELSE IF ~fr.hdrOk THEN Err("proto", "")
    ELSE IF fr.datasize >= maxBlobSize THEN Err("Blob size >= 32Mb", "")
    ELSE NoErr

\* make([]byte, blobHeader.GetDatasize()) panics on a negative length
readBlob(fr) ==
    IF fr.datasize < 0 THEN Panic("makeslice: len out of range")
    ELSE IF ReadFull(fr.blobAvail, fr.datasize) # NoErr THEN ReadFull(fr.blobAvail, fr.datasize)
    ELSE IF ~fr.blobOk THEN Err("proto", "")
    ELSE NoErr

\* the frame the stream holds at index idx; past the last frame no byte is left
NoBlob == [hasRaw |-> FALSE, raw |-> NoBytes, hasZlib |-> FALSE,
           zlib |-> [valid |-> FALSE, plain |-> NoBytes], rawSize |-> 0]
EndFrame == [sizeAvail |-> 0, hdrSize |-> 0, hdrAvail |-> 0, hdrOk |-> FALSE,
             type |-> "", datasize |-> 0, blobAvail |-> 0, blobOk |-> FALSE,
             blob |-> NoBlob]
FrameAt(f, idx) == IF idx <= Len(f) THEN f[idx] ELSE EndFrame

Min(a, b) == IF a < b THEN a ELSE b

\* the bytes io.ReadFull takes from the stream
Taken(avail, want) == Min(avail, want)

\* readFileBlock on the frame fr, the stream being at offset pos:
\* [type, blob, pos, err, next, consumed] where next is the offset after a
\* complete read and consumed counts the bytes taken from the stream
readFrame(fr, pos) ==
    LET e1 == readBlobHeaderSize(fr)
        e2 == readBlobHeader(fr)
        e3 == readBlob(fr)
        err == IF e1 # NoErr THEN e1 ELSE IF e2 # NoErr THEN e2 ELSE e3
    IN  [type |-> IF err = NoErr THEN fr.type ELSE "",
         blob |-> IF err = NoErr THEN fr.blob ELSE NoBlob,
         pos |-> pos,
         err |-> err,
         next |-> pos + 4 + fr.hdrSize + fr.datasize,
         consumed |-> Taken(fr.sizeAvail, 4)
                      + (IF e1 = NoErr THEN Taken(fr.hdrAvail, fr.hdrSize) ELSE 0)
                      + (IF e1 = NoErr /\ e2 = NoErr /\ ~IsPanic(e3)
                         THEN Taken(fr.blobAvail, fr.datasize) ELSE 0)]

\* readFileBlock on the frame at index idx of the file f
readFileBlock(f, idx, pos) == readFrame(FrameAt(f, idx), pos)

\* ------------------------------------------------------------- input files
\* A protobuf message: the fields of HeaderBlock and PrimitiveBlock this
\* decoder reads.
Message(features, st, groups) ==
    [required_features |-> features, stringtable |-> st, groups |-> groups,
     granularity |-> 100, latOffset |-> 0, lonOffset |-> 0,
     dateGranularity |-> 1000]
Bytes(n, m) == [ok |-> TRUE, len |-> n, msg |-> m]
Garbage(n) == [ok |-> FALSE, len |-> n, msg |-> Message(<<>>, <<>>, <<>>)]
RawBlob(b) == [hasRaw |-> TRUE, raw |-> b, hasZlib |-> FALSE,
               zlib |-> [valid |-> FALSE, plain |-> NoBytes], rawSize |-> b.len]
ZlibBlob(b, size) == [hasRaw |-> FALSE, raw |-> NoBytes, hasZlib |-> TRUE,
                      zlib |-> [valid |-> TRUE, plain |-> b], rawSize |-> size]
\* a complete frame: every byte its lengths announce is in the file
Frame(type, hdrSize, datasize, blob) ==
    [sizeAvail |-> 4, hdrSize |-> hdrSize, hdrAvail |-> hdrSize, hdrOk |-> TRUE,
     type |-> type, datasize |-> datasize, blobAvail |-> datasize,
     blobOk |-> TRUE, blob |-> blob]

NoDense == [id |-> <<>>, lat |-> <<>>, lon |-> <<>>, hasInfo |-> FALSE, ts |-> <<>>]
Group(nodes, dense, ways, relations) ==
    [nodes |-> nodes, dense |-> dense, ways |-> ways, relations |-> relations]

StringTable == <<"", "outer", "inner">>

\* two dense nodes, raw payload
DenseBlock ==
    Frame("OSMData", 2, 3,
          RawBlob(Bytes(3, Message(<<>>, StringTable,
              <<Group(<<>>,
                      [id |-> <<10, 5>>, lat |-> <<4, 1>>, lon |-> <<9, -2>>,
                       hasInfo |-> TRUE, ts |-> <<3, 2>>],
                      <<>>, <<>>)>>))))
\* a way and a relation, zlib payload of the advertised size
WayRelBlock ==
    Frame("OSMData", 3, 4,
          ZlibBlob(Bytes(6, Message(<<>>, StringTable,
              <<Group(<<>>, NoDense,
                      <<[id |-> 7, refs |-> <<100, 1, -1>>, hasInfo |-> FALSE,
                         timestamp |-> 0]>>,
                      <<[id |-> 9, memids |-> <<5, 2>>, types |-> <<"NODE", "WAY">>,
                         roles_sid |-> <<1, 2>>, hasInfo |-> TRUE,
                         timestamp |-> 4]>>)>>)), 6))
\* zlib payload one byte short of raw_size
ShortBlock ==
    Frame("OSMData", 2, 5,
          ZlibBlob(Bytes(5, Message(<<>>, StringTable, <<>>)), 6))
\* a frame that is not OSMData
OtherBlock ==
    Frame("OSMOther", 3, 2, RawBlob(Bytes(2, Message(<<>>, <<>>, <<>>))))
\* a relation whose roles_sid is outside the stringtable
BadIndexBlock ==
    Frame("OSMData", 2, 4,
          RawBlob(Bytes(4, Message(<<>>, StringTable,
              <<Group(<<>>, NoDense, <<>>,
                      <<[id |-> 9, memids |-> <<5>>, types |-> <<"NODE">>,
                         roles_sid |-> <<3>>, hasInfo |-> FALSE,
                         timestamp |-> 0]>>)>>))))
\* one sparse node, at 45 and 9 degrees; lat and lon are in units of 100
\* times the granularity, which keeps the products within 32-bit integers
SparseBlock ==
    Frame("OSMData", 2, 6,
          RawBlob(Bytes(6, Message(<<>>, StringTable,
              <<Group(<<[id |-> 42, lat |-> 4500000, lon |-> 900000]>>,
                      NoDense, <<>>, <<>>)>>))))
\* a file that ends two bytes into a frame's length prefix
TruncatedFrame ==
    [sizeAvail |-> 2, hdrSize |-> 0, hdrAvail |-> 0, hdrOk |-> FALSE,
     type |-> "", datasize |-> 0, blobAvail |-> 0, blobOk |-> FALSE,
     blob |-> NoBlob]

\* a frame whose BlobHeader announces a negative datasize
NegativeFrame(type) ==
    [sizeAvail |-> 4, hdrSize |-> 3, hdrAvail |-> 3, hdrOk |-> TRUE,
     type |-> type, datasize |-> 0 - 1, blobAvail |-> 0, blobOk |-> FALSE,
     blob |-> NoBlob]

DataFrames == {DenseBlock, WayRelBlock, ShortBlock, OtherBlock, BadIndexBlock}

HeaderFrame(features) ==
    Frame("OSMHeader", 3, 5, RawBlob(Bytes(5, Message(features, <<>>, <<>>))))
GoodHeader == HeaderFrame(<<"OsmSchema-V0.6", "DenseNodes">>)
BadHeaders ==
    { HeaderFrame(<<"DenseNodes", "HistoricalInformation">>),
      HeaderFrame(<<"Sort.Type_then_ID", "HistoricalInformation">>),
      Frame("OSMData", 3, 5, RawBlob(Bytes(5, Message(<<>>, <<>>, <<>>)))),
      Frame("OSMHeader", 3, 5, RawBlob(Garbage(5))),
      Frame("OSMHeader", 3, 5, NoBlob),
      Frame("OSMHeader", 3, 5, ZlibBlob(Bytes(4, Message(<<>>, <<>>, <<>>)), 5)),
      NegativeFrame("OSMHeader"),
      TruncatedFrame }

DataSeqs == UNION { [1..k -> DataFrames] : k \in 0..MaxBlocks }
Tails == {<<>>, <<TruncatedFrame>>, <<NegativeFrame("OSMData")>>}

\* the zero-byte file, files whose first frame Start rejects, and files with
\* a good header followed by up to MaxBlocks frames and possibly a truncated
\* one
Files ==
    {<<>>}
    \cup { <<h>> \o d : h \in BadHeaders, d \in {<<>>, <<DenseBlock>>} }
    \cup { <<GoodHeader>> \o d \o t : d \in DataSeqs, t \in Tails }

\* files for the checks of progress: the zero-byte file, and a good header
\* followed by up to MaxBlocks frames
ProgressFiles ==
    {<<>>}
    \cup { <<GoodHeader>> \o d :
             d \in UNION { [1..k -> {DenseBlock, ShortBlock, OtherBlock, BadIndexBlock}] :
                              k \in 0..MaxBlocks } }

\* files with sparse nodes: a good header and up to MaxBlocks frames with
\* dense or sparse nodes
SparseFiles ==
    { <<GoodHeader>> \o d :
        d \in UNION { [1..k -> {SparseBlock, DenseBlock}] : k \in 0..MaxBlocks } }

\* files for several consumers: a good header and up to MaxBlocks frames that
\* decode or fail with an error
ConsumerFiles ==
    { <<GoodHeader>> \o d :
        d \in UNION { [1..k -> {DenseBlock, WayRelBlock, ShortBlock}] : k \in 0..MaxBlocks } }

\* mutant: the reader does not check the type of the block
BlockErrAnyType(r) == r.err

\* the error of one reader iteration: the read error or the type check
BlockErr(r) ==
    IF r.err = NoErr /\ r.type # "OSMData"
    THEN Err("unexpected fileblock of type", r.type)
    ELSE r.err

\* ------------------------------------------------- sequential reference
\* What a single pass over the file in file order yields, without goroutines.
FrameLen(fr) == 4 + fr.hdrSize + fr.datasize

RECURSIVE PosOf(_, _)
\* the offset at which frame idx of f begins
PosOf(f, idx) == IF idx = 1 THEN 0 ELSE PosOf(f, idx - 1) + FrameLen(f[idx - 1])

\* a result of Decode that is not io.EOF from the closed channel
Result(i, p, e, blk) == [i |-> i, p |-> p, e |-> e, closed |-> FALSE, blk |-> blk]

RECURSIVE ExpectedFrom(_, _, _)
\* Reading and decoding frame after frame from frame idx at offset pos:
\* [seq, crash], seq being the entities of the frames before the first one
\* that fails, each with its frame's offset, followed by that frame's error;
\* when that frame's decoding panics instead, crash is TRUE and seq ends
\* with the last entity.  The end of the stream fails with io.EOF.
ExpectedFrom(f, idx, pos) ==
    LET r == readFileBlock(f, idx, pos)
        e == BlockErr(r)
        d == DataDecode(r.blob)
        rest == ExpectedFrom(f, idx + 1, r.next)
    IN  IF IsPanic(e)
        THEN [seq |-> <<>>, crash |-> TRUE]
        ELSE IF e # NoErr
        THEN [seq |-> <<Result(NoEntity, pos, e, idx)>>, crash |-> FALSE]
        ELSE IF d.panic
        THEN [seq |-> <<>>, crash |-> TRUE]
        ELSE IF d.err # NoErr
        THEN [seq |-> <<Result(NoEntity, pos, d.err, idx)>>, crash |-> FALSE]
        ELSE [seq |-> [k \in 1..Len(d.objs) |-> Result(d.objs[k], pos, NoErr, idx)]
                      \o rest.seq,
              crash |-> rest.crash]

\* the reference for a file whose header Start accepts
Expected(f) ==
    IF Len(f) = 0 THEN [seq |-> <<>>, crash |-> FALSE]
    ELSE ExpectedFrom(f, 2, PosOf(f, 2))

EntitiesIn(seq) ==
    LET sel == SelectSeq(seq, LAMBDA r : r.i # NoEntity)
    IN  [k \in 1..Len(sel) |-> sel[k].i]

IsPrefix(a, b) == Len(a) <= Len(b) /\ SubSeq(b, 1, Len(a)) = a

\* -------------------------------------------------------------------- state
VARIABLES
    file,        \* the input: a sequence of frames
    offset,      \* the file offset of dec.r
    rdIdx,       \* the index of the frame at offset
    started,     \* "no", or how Start returned: "ok" | "err"
    startErr,    \* the error Start returned
    nArg,        \* the argument of Start
    n,           \* the worker count after clamping; 0 before Start
    rpc,         \* reader: "none" | "read" | "send" | "close" | "done"
    inputIndex,  \* reader's inputIndex
    rtarget,     \* the input the reader is sending on (1..n)
    rpair,       \* the pair the reader is sending
    closeIdx,    \* inputs closed so far by the reader's closing loop
    inClosed,    \* inClosed[w]: dec.inputs[w] is closed
    wpc,         \* worker w: "recv" | "work" | "send" | "done"
    win,         \* the pair worker w received from its input
    wout,        \* the pair worker w sends on its output
    outClosed,   \* outClosed[w]: dec.outputs[w] is closed
    spc,         \* serializer: "none" | "recv" | "emit" | "err" | "close" | "done"
    outputIndex, \* serializer's outputIndex
    spair,       \* the pair the serializer received
    sIdx,        \* entities of spair already sent
    serializer,  \* the buffered channel dec.serializer
    serClosed,   \* dec.serializer is closed
    cpc,         \* consumer c: "idle" | "recv" (inside Decode)
    results,     \* every result Decode returned, in order of return
    calls,       \* history: the number of Decode calls made
    sent,        \* history: every pair sent on dec.serializer
    decoded,     \* history: indices of the frames handed to dataDecoder.Decode
    crashed,     \* a goroutine panicked: the process is gone
    expected,    \* history: Expected(file), the sequential reference, fixed at Init
    readCount,   \* history: the pairs the reader made from its reads
    recvCount,   \* history: the pairs the serializer received from workers
    call,        \* the function applied on its own: "none" before
    arg,         \* its argument
    ret          \* its result

vars == <<file, offset, rdIdx, started, startErr, nArg, n, rpc, inputIndex,
          rtarget, rpair, closeIdx, inClosed, wpc, win, wout, outClosed, spc,
          outputIndex, spair, sIdx, serializer, serClosed, cpc, results, calls,
          sent,
          decoded, crashed, expected, readCount, recvCount, call, arg, ret>>

Consumers == DOMAIN cpc
Workers == 1..n

\* pair{i, p, e}; blk is history: the index of the frame the pair stems from
Pair(i, hasI, p, e, blk) == [i |-> i, hasI |-> hasI, p |-> p, e |-> e, blk |-> blk]
ZeroPair == Pair(<<>>, FALSE, 0, NoErr, 0)
\* the reader's pair before its first read
NoPair == Pair(NoBlob, FALSE, 0, NoErr, 0)

readerVars == <<offset, rdIdx, rpc, inputIndex, rtarget, rpair, closeIdx, inClosed,
                readCount>>
workerVars == <<wpc, win, wout, outClosed, decoded>>
serVars == <<spc, outputIndex, spair, sIdx, recvCount>>
unitVars == <<call, arg, ret>>
chanVars == <<serializer, serClosed, sent>>
consVars == <<cpc, results, calls>>
startVars == <<file, started, startErr, nArg, n, expected>>

InitWith(files, consumers) ==
    /\ file \in files
    /\ expected = Expected(file)
    /\ offset = 0
    /\ rdIdx = 1
    /\ started = "no"
    /\ startErr = NoErr
    /\ nArg = 0
    /\ n = 0
    /\ rpc = "none"
    /\ inputIndex = 0
    /\ rtarget = 0
    /\ rpair = NoPair
    /\ closeIdx = 0
    /\ inClosed = <<>>
    /\ wpc = <<>>
    /\ win = <<>>
    /\ wout = <<>>
    /\ outClosed = <<>>
    /\ spc = "none"
    /\ outputIndex = 0
    /\ spair = ZeroPair
    /\ sIdx = 0
    /\ serializer = <<>>
    /\ serClosed = FALSE
    /\ cpc = [c \in consumers |-> "idle"]
    /\ results = <<>>
    /\ calls = 0
    /\ sent = <<>>
    /\ decoded = {}
    /\ crashed = FALSE
    /\ readCount = 0
    /\ recvCount = 0

\* no function is applied on its own
NoArg == [fn |-> "none"]
NoRet == [fn |-> "none"]
NoCall ==
    /\ call = "none"
    /\ arg = NoArg
    /\ ret = NoRet

\* one consumer, every file
Init == InitWith(Files, {1}) /\ NoCall
\* one consumer, the files for the checks of progress
InitProgress == InitWith(ProgressFiles, {1}) /\ NoCall
\* one consumer, the files with sparse nodes
InitSparse == InitWith(SparseFiles, {1}) /\ NoCall
\* NumConsumers consumers calling Decode concurrently
InitConsumers == InitWith(ConsumerFiles, 1..NumConsumers) /\ NoCall

\* ------------------------------------------------------------------ actions
\* mutant: a worker count below 1 is raised to 2
ClampTwo(k) == IF k < 1 THEN 2 ELSE k

\* if n < 1 { n = 1 }
Clamp(k) == IF k < 1 THEN 1 ELSE k

\* the error of the header part of Start
HeaderErr(r) ==
    IF r.err # NoErr THEN r.err
    ELSE IF r.type = "OSMHeader" THEN decodeOSMHeader(r.blob)
    ELSE Err("unexpected first fileblock of type", r.type)

\* Decoder.Start(k): read and check the header; on success spawn the workers,
\* the reader and the serializer.
Start(k) ==
    /\ started = "no"
    /\ ~crashed
    /\ UNCHANGED unitVars
    /\ LET r == readFileBlock(file, 1, offset)
           err == HeaderErr(r)
       IN  /\ nArg' = k
           /\ startErr' = err
           /\ crashed' = IsPanic(err)
           /\ IF IsPanic(err)
              THEN UNCHANGED <<started, offset, rdIdx, n, rpc, inClosed, wpc, win,
                               wout, outClosed, spc>>
              ELSE IF err # NoErr
              THEN /\ started' = "err"
                   /\ offset' = IF r.err = NoErr THEN r.next ELSE offset
                   /\ rdIdx' = IF r.err = NoErr THEN 2 ELSE 1
                   /\ UNCHANGED <<n, rpc, inClosed, wpc, win, wout, outClosed, spc>>
              ELSE /\ started' = "ok"
                   /\ offset' = r.next
                   /\ rdIdx' = 2
                   /\ n' = Clamp(k)
                   /\ inClosed' = [w \in 1..Clamp(k) |-> FALSE]
                   /\ outClosed' = [w \in 1..Clamp(k) |-> FALSE]
                   /\ wpc' = [w \in 1..Clamp(k) |-> "recv"]
                   /\ win' = [w \in 1..Clamp(k) |-> NoPair]
                   /\ wout' = [w \in 1..Clamp(k) |-> ZeroPair]
                   /\ rpc' = "read"
                   /\ spc' = "recv"
    /\ UNCHANGED <<file, expected, inputIndex, rtarget, rpair, closeIdx, outputIndex,
                   spair, sIdx, decoded, readCount, recvCount>>
    /\ UNCHANGED <<chanVars, consVars>>

\* inputIndex = (inputIndex + 1) % n
NextInput(i) == (i + 1) % n

\* Reader: pick the next input round-robin and read the next file block.
ReaderRead ==
    /\ rpc = "read"
    /\ ~crashed
    /\ UNCHANGED unitVars
    /\ LET r == readFileBlock(file, rdIdx, offset)
           err == BlockErr(r)
       IN  /\ inputIndex' = NextInput(inputIndex)
           /\ crashed' = IsPanic(err)
           /\ IF IsPanic(err)
              THEN UNCHANGED <<rtarget, rpair, offset, rdIdx, rpc, readCount>>
              ELSE /\ rtarget' = inputIndex + 1
                   /\ rpair' = IF err = NoErr
                               THEN Pair(r.blob, TRUE, r.pos, NoErr, rdIdx)
                               ELSE Pair(NoBlob, FALSE, r.pos, err, rdIdx)
                   /\ offset' = IF r.err = NoErr THEN r.next ELSE offset
                   /\ rdIdx' = IF r.err = NoErr THEN rdIdx + 1 ELSE rdIdx
                   /\ readCount' = readCount + 1
                   /\ rpc' = "send"
    /\ UNCHANGED <<closeIdx, inClosed>>
    /\ UNCHANGED <<startVars, workerVars, serVars, chanVars, consVars>>

\* mutant: the send completes although the worker is not receiving, as on a
\* channel that drops what it holds
InputHandoffNoWait(w) ==
    /\ rpc = "send"
    /\ ~crashed
    /\ UNCHANGED unitVars
    /\ rtarget = w
    /\ win' = [win EXCEPT ![w] = rpair]
    /\ wpc' = [wpc EXCEPT ![w] = "work"]
    /\ rpc' = IF rpair.e = NoErr THEN "read" ELSE "close"
    /\ closeIdx' = 0
    /\ UNCHANGED <<offset, rdIdx, inputIndex, rtarget, rpair, inClosed,
                   wout, outClosed, decoded, readCount, crashed>>
    /\ UNCHANGED <<startVars, serVars, chanVars, consVars>>

\* Reader sends its pair on the unbuffered input of worker w, which receives
\* it in its range loop.  A send on a closed channel panics.
InputHandoff(w) ==
    /\ rpc = "send"
    /\ ~crashed
    /\ UNCHANGED unitVars
    /\ rtarget = w
    /\ IF inClosed[w]
       THEN /\ crashed' = TRUE
            /\ UNCHANGED <<rpc, wpc, win, closeIdx>>
       ELSE /\ wpc[w] = "recv"
            /\ win' = [win EXCEPT ![w] = rpair]
            /\ wpc' = [wpc EXCEPT ![w] = "work"]
            /\ rpc' = IF rpair.e = NoErr THEN "read" ELSE "close"
            /\ closeIdx' = 0
            /\ UNCHANGED crashed
    /\ UNCHANGED <<offset, rdIdx, inputIndex, rtarget, rpair, inClosed,
                   wout, outClosed, decoded, readCount>>
    /\ UNCHANGED <<startVars, serVars, chanVars, consVars>>

\* Reader, after sending an error: close the inputs one after the other.
\* Closing a closed channel panics.
ReaderClose ==
    /\ rpc = "close"
    /\ ~crashed
    /\ UNCHANGED unitVars
    /\ IF closeIdx = n
       THEN /\ rpc' = "done"
            /\ UNCHANGED <<closeIdx, inClosed, crashed>>
       ELSE IF inClosed[closeIdx + 1]
       THEN /\ crashed' = TRUE
            /\ UNCHANGED <<rpc, closeIdx, inClosed>>
       ELSE /\ inClosed' = [inClosed EXCEPT ![closeIdx + 1] = TRUE]
            /\ closeIdx' = closeIdx + 1
            /\ UNCHANGED <<rpc, crashed>>
    /\ UNCHANGED <<offset, rdIdx, inputIndex, rtarget, rpair, readCount>>
    /\ UNCHANGED <<startVars, workerVars, serVars, chanVars, consVars>>

\* mutant: the worker forgets the position of the pair it received
WorkerOutNoPos(p, d) ==
    IF p.e = NoErr
    THEN Pair(d.objs, TRUE, 0, d.err, p.blk)
    ELSE Pair(<<>>, FALSE, 0, p.e, p.blk)

\* mutant: the worker drops a decoding error
WorkerOutNoErr(p, d) ==
    IF p.e = NoErr
    THEN Pair(d.objs, TRUE, p.p, NoErr, p.blk)
    ELSE Pair(<<>>, FALSE, p.p, p.e, p.blk)

\* the pair a worker sends for the pair p it received, given the result d of
\* dataDecoder.Decode
WorkerOut(p, d) ==
    IF p.e = NoErr
    THEN Pair(d.objs, TRUE, p.p, d.err, p.blk)
    ELSE Pair(<<>>, FALSE, p.p, p.e, p.blk)

\* Worker w: decode the blob it received, or take an input error as is.
WorkerWork(w) ==
    /\ wpc[w] = "work"
    /\ ~crashed
    /\ UNCHANGED unitVars
    /\ LET p == win[w]
           d == DataDecode(p.i)
       IN  IF p.e = NoErr /\ d.panic
           THEN /\ crashed' = TRUE
                /\ decoded' = decoded \cup {p.blk}
                /\ UNCHANGED <<wpc, wout>>
           ELSE /\ wout' = [wout EXCEPT ![w] = WorkerOut(p, d)]
                /\ wpc' = [wpc EXCEPT ![w] = "send"]
                /\ decoded' = IF p.e = NoErr THEN decoded \cup {p.blk} ELSE decoded
                /\ UNCHANGED crashed
    /\ UNCHANGED <<win, outClosed>>
    /\ UNCHANGED <<startVars, readerVars, serVars, chanVars, consVars>>

\* Worker w: its input is closed and drained: close the output and end.
WorkerClose(w) ==
    /\ wpc[w] = "recv"
    /\ ~crashed
    /\ UNCHANGED unitVars
    /\ inClosed[w]
    /\ outClosed' = [outClosed EXCEPT ![w] = TRUE]
    /\ wpc' = [wpc EXCEPT ![w] = "done"]
    /\ UNCHANGED <<win, wout, decoded, crashed>>
    /\ UNCHANGED <<startVars, readerVars, serVars, chanVars, consVars>>

\* mutant: the serializer does not stop at a pair that only carries an error
AfterRecvNoErr(p) == IF p.hasI /\ Len(p.i) > 0 THEN "emit" ELSE "recv"

\* where the serializer goes after receiving p
AfterRecv(p) ==
    IF p.hasI /\ Len(p.i) > 0 THEN "emit"
    ELSE IF p.e # NoErr THEN "err"
    ELSE "recv"

\* mutant: the serializer does not advance its index
NextOutputStuck(i) == i

\* outputIndex = (outputIndex + 1) % n
NextOutput(i) == (i + 1) % n

\* Serializer: receive from outputs[outputIndex], advancing round-robin; the
\* worker sends on its unbuffered output.  A receive from a closed output
\* yields the zero pair.
OutputHandoff(w) ==
    /\ spc = "recv"
    /\ ~crashed
    /\ UNCHANGED unitVars
    /\ w = outputIndex + 1
    /\ outputIndex' = NextOutput(outputIndex)
    /\ sIdx' = 0
    /\ IF outClosed[w]
       THEN /\ spair' = ZeroPair
            /\ spc' = AfterRecv(ZeroPair)
            /\ UNCHANGED <<wpc, recvCount>>
       ELSE /\ wpc[w] = "send"
            /\ spair' = wout[w]
            /\ spc' = AfterRecv(wout[w])
            /\ wpc' = [wpc EXCEPT ![w] = "recv"]
            /\ recvCount' = recvCount + 1
    /\ UNCHANGED <<win, wout, outClosed, decoded, crashed>>
    /\ UNCHANGED <<startVars, readerVars, chanVars, consVars>>

\* a send on dec.serializer
Push(item) ==
    /\ Len(serializer) < SerializerCap
    /\ serializer' = Append(serializer, item)
    /\ sent' = Append(sent, item)

\* Serializer: send the next object of the received batch.
SerializerEmit ==
    /\ spc = "emit"
    /\ ~crashed
    /\ UNCHANGED unitVars
    /\ IF serClosed
       THEN /\ crashed' = TRUE
            /\ UNCHANGED <<spc, sIdx, serializer, sent>>
       ELSE /\ Push(Pair(spair.i[sIdx + 1], TRUE, spair.p, NoErr, spair.blk))
            /\ sIdx' = sIdx + 1
            /\ spc' = IF sIdx + 1 < Len(spair.i) THEN "emit"
                      ELSE IF spair.e # NoErr THEN "err"
                      ELSE "recv"
            /\ UNCHANGED crashed
    /\ UNCHANGED <<outputIndex, spair, serClosed, recvCount>>
    /\ UNCHANGED <<startVars, readerVars, workerVars, consVars>>

\* Serializer: send the input or decoding error.
SerializerErr ==
    /\ spc = "err"
    /\ ~crashed
    /\ UNCHANGED unitVars
    /\ IF serClosed
       THEN /\ crashed' = TRUE
            /\ UNCHANGED <<spc, serializer, sent>>
       ELSE /\ Push(Pair(NoEntity, FALSE, spair.p, spair.e, spair.blk))
            /\ spc' = "close"
            /\ UNCHANGED crashed
    /\ UNCHANGED <<outputIndex, spair, sIdx, serClosed, recvCount>>
    /\ UNCHANGED <<startVars, readerVars, workerVars, consVars>>

\* Serializer: close dec.serializer and end.
SerializerClose ==
    /\ spc = "close"
    /\ ~crashed
    /\ UNCHANGED unitVars
    /\ IF serClosed
       THEN /\ crashed' = TRUE
            /\ UNCHANGED <<spc, serClosed>>
       ELSE /\ serClosed' = TRUE
            /\ spc' = "done"
            /\ UNCHANGED crashed
    /\ UNCHANGED <<outputIndex, spair, sIdx, serializer, sent, recvCount>>
    /\ UNCHANGED <<startVars, readerVars, workerVars, consVars>>

\* results that are io.EOF from the closed channel
IsClosureEOF(r) == r.closed
ClosureEOFs == Cardinality({k \in 1..Len(results) : IsClosureEOF(results[k])})

\* Consumer c enters Decode.
DecodeCall(c) ==
    /\ cpc[c] = "idle"
    /\ ~crashed
    /\ UNCHANGED unitVars
    /\ started # "no"
    /\ ClosureEOFs < MaxEOF
    /\ cpc' = [cpc EXCEPT ![c] = "recv"]
    /\ calls' = calls + 1
    /\ UNCHANGED <<results, crashed>>
    /\ UNCHANGED <<startVars, readerVars, workerVars, serVars, chanVars>>

\* what Decode returns for the receive p, ok := <-dec.serializer
DecodeResult(p, ok) ==
    IF ~ok
    THEN [i |-> NoEntity, p |-> p.p, e |-> EOF, closed |-> TRUE, blk |-> p.blk]
    ELSE [i |-> IF p.hasI THEN p.i ELSE NoEntity, p |-> p.p, e |-> p.e,
          closed |-> FALSE, blk |-> p.blk]

\* mutant: the receive leaves the pair in the channel
AfterReceiveKeep(ch) == ch

\* the channel after p, ok := <-dec.serializer took its first pair
AfterReceive(ch) == Tail(ch)

\* Consumer c: the receive in Decode completes and Decode returns.
DecodeReturn(c) ==
    /\ cpc[c] = "recv"
    /\ ~crashed
    /\ UNCHANGED unitVars
    /\ IF Len(serializer) > 0
       THEN /\ results' = Append(results, DecodeResult(Head(serializer), TRUE))
            /\ serializer' = AfterReceive(serializer)
       ELSE /\ serClosed
            /\ results' = Append(results, DecodeResult(ZeroPair, FALSE))
            /\ UNCHANGED serializer
    /\ cpc' = [cpc EXCEPT ![c] = "idle"]
    /\ UNCHANGED <<calls, serClosed, sent, crashed>>
    /\ UNCHANGED <<startVars, readerVars, workerVars, serVars>>

Next ==
    \/ \E k \in (0 - 1)..MaxWorkers : Start(k)
    \/ ReaderRead
    \/ \E w \in Workers : InputHandoff(w)
    \/ ReaderClose
    \/ \E w \in Workers : WorkerWork(w)
    \/ \E w \in Workers : WorkerClose(w)
    \/ \E w \in Workers : OutputHandoff(w)
    \/ SerializerEmit
    \/ SerializerErr
    \/ SerializerClose
    \/ \E c \in Consumers : DecodeCall(c)
    \/ \E c \in Consumers : DecodeReturn(c)

Spec == Init /\ [][Next]_vars

SpecConsumers == InitConsumers /\ [][Next]_vars

SpecSparse == InitSparse /\ [][Next]_vars

\* Every goroutine that can take a step eventually takes one, and a consumer
\* keeps calling Decode.
Fairness ==
    /\ WF_vars(ReaderRead)
    /\ WF_vars(ReaderClose)
    /\ WF_vars(SerializerEmit)
    /\ WF_vars(SerializerErr)
    /\ WF_vars(SerializerClose)
    /\ WF_vars(\E w \in Workers : InputHandoff(w))
    /\ WF_vars(\E w \in Workers : OutputHandoff(w))
    /\ \A w \in 1..MaxWorkers : WF_vars(w \in Workers /\ WorkerWork(w))
    /\ \A w \in 1..MaxWorkers : WF_vars(w \in Workers /\ WorkerClose(w))
    /\ WF_vars(\E k \in (0 - 1)..MaxWorkers : Start(k))
    /\ WF_vars(DecodeCall(1))
    /\ WF_vars(DecodeReturn(1))

FairSpec == InitProgress /\ [][Next]_vars /\ Fairness

\* ------------------------------------------------ the functions on their own
\* Each function of the decoder that the pipeline calls is also applied on its
\* own, to an argument drawn from a bounded set, the pipeline standing still.

\* longest refs array of a way
MaxRefs == 4
\* longest id array of a DenseNodes group
MaxDense == 3
\* longest memids array of a relation
MaxMembers == 2

\* the sequences over S of length at most k
SeqsUpTo(S, k) == UNION { [1..m -> S] : m \in 0..k }

\* s without its last element
Front(s) == SubSeq(s, 1, Len(s) - 1)

\* The file that holds the first k bytes of the frame fr and nothing else.
Cut(fr, k) ==
    [fr EXCEPT !.sizeAvail = Min(4, k),
               !.hdrAvail = Min(fr.hdrSize, IF k > 4 THEN k - 4 ELSE 0),
               !.blobAvail = Min(IF fr.datasize > 0 THEN fr.datasize ELSE 0,
                                 IF k > 4 + fr.hdrSize THEN k - 4 - fr.hdrSize ELSE 0)]

\* the bytes of the frame fr
Total(fr) == 4 + fr.hdrSize + (IF fr.datasize > 0 THEN fr.datasize ELSE 0)

\* Frames at the boundaries of the size limits.  A BlobHeader of no bytes
\* lacks its required fields, so it does not parse.
BoundaryFrames ==
    { [sizeAvail |-> 4, hdrSize |-> h, hdrAvail |-> h, hdrOk |-> ok /\ h > 0,
       type |-> "OSMData", datasize |-> d,
       blobAvail |-> IF d > 0 THEN d ELSE 0, blobOk |-> TRUE,
       blob |-> RawBlob(Bytes(2, Message(<<>>, StringTable, <<>>)))] :
        h \in {0, 2, maxBlobHeaderSize - 1, maxBlobHeaderSize},
        d \in {0 - 1, 0, 3, maxBlobSize - 1, maxBlobSize},
        ok \in BOOLEAN }

\* the places where the file can end, relative to the frame fr
Cuts(fr) ==
    { k \in (0..5) \cup {4 + fr.hdrSize - 1, 4 + fr.hdrSize, 4 + fr.hdrSize + 1,
                         Total(fr) - 1, Total(fr)} : k <= Total(fr) }

FrameArgs ==
    UNION { { [fn |-> "readFileBlock", fr |-> Cut(fr, k), cut |-> k,
               total |-> Total(fr)] : k \in Cuts(fr) } : fr \in BoundaryFrames }

\* Blobs: raw and zlib_data present or not, a zlib stream whose header is
\* valid or not, and raw_size around the decompressed length and at the ends
\* of int32.
BlobArgs ==
    { [fn |-> "getData",
       blob |-> [hasRaw |-> hr,
                 raw |-> IF hr THEN Bytes(4, Message(<<>>, StringTable, <<>>))
                         ELSE NoBytes,
                 hasZlib |-> hz,
                 zlib |-> [valid |-> v,
                           plain |-> Bytes(len, Message(<<>>, <<>>, <<>>))],
                 rawSize |-> size]] :
        hr \in BOOLEAN, hz \in BOOLEAN, v \in BOOLEAN, len \in {5, 6},
        size \in {0 - MinRead - 1, 0 - MinRead, 0, 5, 6, 7, MaxInt32} }

\* the block parameters the parse functions read
Params == Message(<<>>, StringTable, <<>>)

\* DenseNodes groups: lat and lon as long as id or one shorter; no denseinfo,
\* or timestamps that are absent, as long as id, or one shorter.
DenseArgs ==
    UNION { { [fn |-> "parseDenseNodes",
               dn |-> [id |-> ids,
                       lat |-> IF short THEN Front([i \in 1..Len(ids) |-> ids[i] + 1])
                               ELSE [i \in 1..Len(ids) |-> ids[i] + 1],
                       lon |-> [i \in 1..Len(ids) |-> 0 - ids[i]],
                       hasInfo |-> t # "none",
                       ts |-> CASE t = "full" -> [i \in 1..Len(ids) |-> ids[i] + 2]
                                [] t = "short" -> Front([i \in 1..Len(ids) |-> ids[i] + 2])
                                [] OTHER -> <<>>]] :
                short \in {b \in BOOLEAN : b => Len(ids) > 0},
                t \in {"none", "empty", "full"}
                      \cup (IF Len(ids) > 0 THEN {"short"} ELSE {}) } :
            ids \in SeqsUpTo({10, 5, 0 - 3}, MaxDense) }

WayOf(id, refs, hasInfo) ==
    [id |-> id, refs |-> refs, hasInfo |-> hasInfo, timestamp |-> 4]

\* one way, or two ways one after the other
WayArgs ==
    { [fn |-> "parseWays", ways |-> <<WayOf(7, r, FALSE)>>] :
        r \in SeqsUpTo({100, 1, 0 - 1}, MaxRefs) }
    \cup { [fn |-> "parseWays", ways |-> <<WayOf(7, r1, TRUE), WayOf(8, r2, FALSE)>>] :
             r1 \in SeqsUpTo({100, 1, 0 - 1}, MaxRefs),
             r2 \in SeqsUpTo({100, 1, 0 - 1}, MaxRefs) }

\* an OSMData blob holding the one relation rel
RelationBlob(rel) ==
    RawBlob(Bytes(4, Message(<<>>, StringTable,
                             <<Group(<<>>, NoDense, <<>>, <<rel>>)>>)))

\* relations whose types and roles_sid are as long as memids, shorter or
\* longer, with role indices inside and outside the stringtable
RelationArgs ==
    { [fn |-> "Decode",
       rel |-> [id |-> 9, memids |-> m, types |-> t, roles_sid |-> r,
                hasInfo |-> FALSE, timestamp |-> 0]] :
        m \in SeqsUpTo({5, 2}, MaxMembers),
        t \in SeqsUpTo({"NODE", "WAY", "RELATION"}, MaxMembers + 1),
        r \in SeqsUpTo({1, 2, 3}, MaxMembers + 1) }

UnitArgs == FrameArgs \cup BlobArgs \cup DenseArgs \cup WayArgs \cup RelationArgs

InitUnit ==
    /\ InitWith({<<>>}, {1})
    /\ call = "none"
    /\ arg \in UnitArgs
    /\ ret = NoRet

\* the function named by arg is applied and returns r
Apply(fn, r) ==
    /\ call = "none"
    /\ arg.fn = fn
    /\ call' = fn
    /\ ret' = r
    /\ UNCHANGED arg
    /\ UNCHANGED <<startVars, readerVars, workerVars, serVars, chanVars, consVars,
                   crashed>>

ApplyReadFileBlock == Apply("readFileBlock", readFrame(arg.fr, 0))
ApplyGetData == Apply("getData", getData(arg.blob))
ApplyParseDenseNodes == Apply("parseDenseNodes", parseDenseNodes(Params, arg.dn))
ApplyParseWays == Apply("parseWays", parseWays(Params, arg.ways))
ApplyDecode == Apply("Decode", DataDecode(RelationBlob(arg.rel)))

NextUnit ==
    \/ ApplyReadFileBlock
    \/ ApplyGetData
    \/ ApplyParseDenseNodes
    \/ ApplyParseWays
    \/ ApplyDecode

UnitSpec == InitUnit /\ [][NextUnit]_vars

\* the entities Decode returned, in order of return
ReturnedEntities == EntitiesIn(results)

\* a Decode call has returned an error
TerminalDelivered == \E k \in 1..Len(results) : results[k].e # NoErr

\* ------------------------------------------------------------------ claims
\* C1: the entities Decode returns are, in order, the batches of the frames
\* before the first failing frame: at every moment a prefix of that
\* concatenation, and the whole of it once an error has been returned; no
\* entity is lost, duplicated or reordered under any interleaving.
C1_FileOrder ==
    started = "ok" =>
        LET exp == EntitiesIn(expected.seq)
        IN  /\ IsPrefix(ReturnedEntities, exp)
            /\ TerminalDelivered => ReturnedEntities = exp

\* three blocks decoded by two workers were returned, then the error
C1_Witness ==
    /\ n = 2
    /\ TerminalDelivered
    /\ Len(ReturnedEntities) = 6

\* C2: every entity is returned with the offset at which the frame it was
\* decoded from begins, and the positions of successively returned entities
\* never decrease.
C2_Positions ==
    /\ \A k \in 1..Len(results) :
          results[k].i # NoEntity =>
              /\ results[k].blk \in 2..Len(file)
              /\ results[k].p = PosOf(file, results[k].blk)
              /\ \E m \in 1..Len(DataDecode(file[results[k].blk].blob).objs) :
                    DataDecode(file[results[k].blk].blob).objs[m] = results[k].i
    /\ \A j, k \in 1..Len(results) :
          (j < k /\ results[j].i # NoEntity /\ results[k].i # NoEntity)
              => results[j].p <= results[k].p

\* entities of two different frames were returned
C2_Witness ==
    \E j, k \in 1..Len(results) :
        /\ results[j].i # NoEntity
        /\ results[k].i # NoEntity
        /\ results[j].p < results[k].p

\* the results that are not io.EOF from the closed channel
Delivered == SelectSeq(results, LAMBDA r : ~r.closed)
ClosureEOF == [i |-> NoEntity, p |-> 0, e |-> EOF, closed |-> TRUE, blk |-> 0]

\* C3: the (entity, position, error) results are a function of the file
\* alone: whatever the worker count, they are a prefix of the sequential
\* reference, the whole of it once the channel is seen closed, followed only
\* by io.EOF; and Start(k) with k < 1 runs one worker, as Start(1) does.
C3_WorkerCountIndependent ==
    /\ started = "ok" => n = (IF nArg < 1 THEN 1 ELSE nArg)
    /\ IsPrefix(Delivered, expected.seq)
    /\ \A k \in 1..Len(results) :
          results[k].closed =>
              /\ results[k] = ClosureEOF
              /\ Delivered = expected.seq
              /\ \A j \in k..Len(results) : results[j].closed

\* two workers delivered the whole reference of a file of several frames
C3_Witness ==
    /\ n = 2
    /\ Len(results) > 0
    /\ results[Len(results)].closed
    /\ Len(Delivered) >= 5

\* indices of the results that carry an error other than io.EOF by closure
ErrorResults == {k \in 1..Len(results) : results[k].e # NoErr /\ ~results[k].closed}

\* C4: at most one Decode call returns an error that is not io.EOF by
\* closure, exactly one once the channel is closed and drained; it is the
\* error and position of the first frame in file order that failed, it comes
\* after all entities of the earlier frames, and every later call returns
\* io.EOF and no entity.
C4_FatalOnce ==
    /\ Cardinality(ErrorResults) <= 1
    /\ \A k \in ErrorResults :
          /\ ~expected.crash
          /\ results[k] = expected.seq[Len(expected.seq)]
          /\ EntitiesIn(SubSeq(results, 1, k - 1)) = EntitiesIn(expected.seq)
          /\ \A j \in (k + 1)..Len(results) : results[j] = ClosureEOF
    /\ \A k \in 1..Len(results) :
          results[k].closed => \E j \in ErrorResults : j < k
    /\ (serClosed /\ serializer = <<>>) => Cardinality(ErrorResults) = 1

\* a decoding error was returned after the entities of an earlier frame and
\* before io.EOF
C4_Witness ==
    \E k \in ErrorResults :
        /\ results[k].e.kind = "raw blob data size"
        /\ k > 1
        /\ k < Len(results)
        /\ Len(file) > results[k].blk

\* C5: after Start succeeded, under fair scheduling, a consumer that keeps
\* calling Decode eventually receives the end of the stream or the terminal
\* error.
C5_EventuallyTerminal == (started = "ok") ~> TerminalDelivered

\* the pairs in the channel, as Decode will return them
Buffered == [k \in 1..Len(serializer) |-> DecodeResult(serializer[k], TRUE)]
Sent == [k \in 1..Len(sent) |-> DecodeResult(sent[k], TRUE)]

\* C6: with several consumers calling Decode concurrently, every call that
\* returned has returned exactly one result; the results that are not io.EOF
\* by closure are exactly the pairs sent on the serializer channel and no
\* longer in it, each returned once and in the order sent; the error is
\* returned to at most one call; and io.EOF by closure is returned only after
\* everything sent has been returned.
C6_ConcurrentDecode ==
    /\ calls = Len(results) + Cardinality({c \in Consumers : cpc[c] = "recv"})
    /\ Delivered \o Buffered = Sent
    /\ Cardinality(ErrorResults) <= 1
    /\ \A k \in 1..Len(results) :
          results[k].closed =>
              /\ results[k] = ClosureEOF
              /\ serClosed
              /\ Delivered = Sent
              /\ ErrorResults # {}
              /\ \A j \in k..Len(results) : results[j].closed

\* every consumer is inside Decode while a pair is in the channel, after an
\* earlier pair was returned
C6_Witness ==
    /\ Cardinality(Consumers) >= 2
    /\ \A c \in Consumers : cpc[c] = "recv"
    /\ Len(serializer) > 0
    /\ Len(Delivered) > 0

\* the first frame is complete, is an OSMHeader, its payload can be extracted
\* and parsed, and it requires supported features only
HeaderAccepted(f) ==
    /\ Len(f) >= 1
    /\ f[1].sizeAvail = 4
    /\ f[1].hdrSize < 64 * 1024
    /\ f[1].hdrAvail = f[1].hdrSize
    /\ f[1].hdrOk
    /\ f[1].datasize >= 0
    /\ f[1].datasize < 32 * 1024 * 1024
    /\ f[1].blobAvail = f[1].datasize
    /\ f[1].blobOk
    /\ f[1].type = "OSMHeader"
    /\ \/ f[1].blob.hasRaw /\ f[1].blob.raw.ok
       \/ /\ ~f[1].blob.hasRaw
          /\ f[1].blob.hasZlib
          /\ f[1].blob.zlib.valid
          /\ f[1].blob.zlib.plain.len = f[1].blob.rawSize
          /\ f[1].blob.zlib.plain.ok
    /\ LET data == IF f[1].blob.hasRaw THEN f[1].blob.raw ELSE f[1].blob.zlib.plain
       IN  \A i \in 1..Len(data.msg.required_features) :
              data.msg.required_features[i] \in {"OsmSchema-V0.6", "DenseNodes"}

NothingSpawned ==
    /\ n = 0
    /\ rpc = "none"
    /\ spc = "none"
    /\ wpc = <<>>
    /\ inClosed = <<>>
    /\ outClosed = <<>>

\* C7: Start returns: nil, having spawned the reader, the workers and the
\* serializer, exactly when the header is accepted; otherwise an error, having
\* spawned nothing, and a header requiring HistoricalInformation is rejected
\* with an error naming that feature.
C7_StartIffHeader ==
    /\ ~(started = "no" /\ crashed)
    /\ started # "no" =>
        /\ (started = "ok") <=> HeaderAccepted(file)
        /\ started = "ok" =>
              /\ startErr = NoErr
              /\ n >= 1
              /\ rpc # "none"
              /\ spc # "none"
              /\ DOMAIN wpc = 1..n
        /\ started = "err" =>
              /\ startErr # NoErr
              /\ NothingSpawned
              /\ file = <<HeaderFrame(<<"DenseNodes", "HistoricalInformation">>)>>
                    => startErr = Err("parser does not have capability",
                                      "HistoricalInformation")

\* frame idx of f is a complete frame after the header of a type other than
\* OSMData
OtherTypeAt(f, idx) ==
    /\ idx \in 2..Len(f)
    /\ f[idx].sizeAvail = 4
    /\ f[idx].hdrAvail = f[idx].hdrSize
    /\ f[idx].blobAvail = f[idx].datasize
    /\ f[idx].hdrOk
    /\ f[idx].blobOk
    /\ f[idx].type # "OSMData"

TypeError(f, idx) ==
    Result(NoEntity, PosOf(f, idx), Err("unexpected fileblock of type", f[idx].type), idx)

\* C8: a frame after the header that is not OSMData is never decoded: a
\* worker receives it only as an error pair; the result returned for it is
\* the unexpected-type error with the frame's offset, after all entities of
\* the frames before it; and no later frame is read or returned.
C8_OtherTypeNotDecoded ==
    \A idx \in 2..Len(file) :
        OtherTypeAt(file, idx) =>
            /\ idx \notin decoded
            /\ rdIdx <= idx + 1
            /\ \A w \in Workers :
                  win[w].blk = idx =>
                      /\ ~win[w].hasI
                      /\ win[w].e = Err("unexpected fileblock of type", file[idx].type)
                      /\ win[w].p = PosOf(file, idx)
            /\ \A k \in 1..Len(results) :
                  /\ results[k].blk <= idx
                  /\ results[k].blk = idx =>
                        /\ results[k] = TypeError(file, idx)
                        /\ EntitiesIn(SubSeq(results, 1, k - 1)) = EntitiesIn(expected.seq)
                        /\ \A j \in 2..(idx - 1) : j \in decoded

\* the unexpected-type error was returned after entities, with a frame left
\* unread behind it
C8_Witness ==
    \E k \in 2..Len(results) :
        /\ results[k].e.kind = "unexpected fileblock of type"
        /\ results[k].blk < Len(file)

\* the payload of a frame holds a relation whose parallel arrays differ in
\* length or whose role index is outside the stringtable
CorruptRelation(st, rel) ==
    \/ Len(rel.types) # Len(rel.memids)
    \/ Len(rel.roles_sid) # Len(rel.memids)
    \/ \E i \in 1..Len(rel.roles_sid) :
          rel.roles_sid[i] < 0 \/ rel.roles_sid[i] >= Len(st)

CorruptBlock(fr) ==
    /\ fr.blob.hasRaw
    /\ fr.blob.raw.ok
    /\ \E g \in 1..Len(fr.blob.raw.msg.groups) :
          \E k \in 1..Len(fr.blob.raw.msg.groups[g].relations) :
              CorruptRelation(fr.blob.raw.msg.stringtable,
                              fr.blob.raw.msg.groups[g].relations[k])

\* the payload of a frame cannot be extracted or parsed
CorruptBlob(fr) ==
    \/ ~fr.blob.hasRaw /\ ~fr.blob.hasZlib
    \/ fr.blob.hasRaw /\ ~fr.blob.raw.ok
    \/ /\ ~fr.blob.hasRaw
       /\ fr.blob.hasZlib
       /\ \/ ~fr.blob.zlib.valid
          \/ fr.blob.zlib.plain.len # fr.blob.rawSize
          \/ ~fr.blob.zlib.plain.ok

\* C9: a failure inside the decoding of a block (zlib error, size mismatch,
\* parse failure, invalid stringtable index, parallel arrays of different
\* length) is an error value for that block: the process goes on, the worker
\* sends for it a pair with the error, the block's offset and no entity, and
\* the result returned for it is that error.
C9_FailureIsErrorValue ==
    \A idx \in decoded :
        (CorruptBlob(file[idx]) \/ CorruptBlock(file[idx])) =>
            /\ ~crashed
            /\ \A w \in Workers :
                  (wout[w].blk = idx) =>
                      /\ wout[w].e # NoErr
                      /\ wout[w].i = <<>>
                      /\ wout[w].p = PosOf(file, idx)
            /\ \A k \in 1..Len(results) :
                  results[k].blk = idx =>
                      /\ results[k].e # NoErr
                      /\ results[k].i = NoEntity
                      /\ results[k].p = PosOf(file, idx)

\* C10: on an input of zero bytes the first Decode call returns io.EOF and
\* no entity; it does not block forever.
C10_EmptyInputEOF ==
    (file = <<>> /\ cpc[1] = "recv")
        ~> (Len(results) > 0 /\ results[1].e = EOF /\ results[1].i = NoEntity)

\* C11: readFileBlock returns io.EOF only when the file ends where the 4-byte
\* length of a frame is expected; when the file ends inside a frame (inside
\* the length, the BlobHeader or the Blob, also when no byte at all of a
\* non-empty BlobHeader or Blob is left) it returns an error other than
\* io.EOF.
C11_TruncationDistinct ==
    call = "readFileBlock" =>
        /\ ret.err = EOF => arg.cut = 0
        /\ (0 < arg.cut /\ arg.cut < arg.total) => (ret.err # NoErr /\ ret.err # EOF)

\* the first length that the reader refuses, in a frame that is all there
OversizedHeader(fr) == fr.sizeAvail = 4 /\ fr.hdrSize >= 64 * 1024
\* the BlobHeader of the frame was read and parsed
HeaderParsed(fr) ==
    /\ fr.sizeAvail = 4
    /\ fr.hdrSize < 64 * 1024
    /\ fr.hdrAvail = fr.hdrSize
    /\ fr.hdrOk

\* C12: a header length of 64*1024 or more fails before any byte of the
\* header is read, and 64*1024 - 1 is accepted; a datasize of 32*1024*1024 or
\* more fails before any byte of the blob is read, and 32*1024*1024 - 1 is
\* accepted; and a datasize that passes the check is a valid buffer length:
\* the blob buffer is made without a panic.
C12_SizeLimits ==
    call = "readFileBlock" =>
        /\ OversizedHeader(arg.fr) =>
              /\ ret.err = Err("BlobHeader size >= 64Kb", "")
              /\ ret.consumed = 4
        /\ (arg.fr.sizeAvail = 4 /\ arg.fr.hdrSize = 64 * 1024 - 1) =>
              ret.err # Err("BlobHeader size >= 64Kb", "")
        /\ (HeaderParsed(arg.fr) /\ arg.fr.datasize >= 32 * 1024 * 1024) =>
              /\ ret.err = Err("Blob size >= 32Mb", "")
              /\ ret.consumed = 4 + arg.fr.hdrSize
        /\ (HeaderParsed(arg.fr) /\ arg.fr.datasize = 32 * 1024 * 1024 - 1
            /\ arg.cut = arg.total) =>
              ret.err = NoErr
        /\ (HeaderParsed(arg.fr) /\ arg.fr.datasize < 32 * 1024 * 1024) =>
              /\ arg.fr.datasize >= 0
              /\ ~IsPanic(ret.err)

\* C13: getData returns the raw field unchanged whenever raw is present;
\* otherwise, with zlib_data present, it returns the decompressed bytes
\* exactly when the stream is valid and their length equals raw_size, and an
\* error value in every other case; with neither field it returns the
\* unknown-blob-data error.
C13_GetData ==
    call = "getData" =>
        /\ arg.blob.hasRaw => ret = [data |-> arg.blob.raw, err |-> NoErr]
        /\ (~arg.blob.hasRaw /\ arg.blob.hasZlib) =>
              /\ ~IsPanic(ret.err)
              /\ (ret.err = NoErr) <=>
                    (arg.blob.zlib.valid
                     /\ arg.blob.zlib.plain.len = arg.blob.rawSize)
              /\ ret.err = NoErr => ret.data = arg.blob.zlib.plain
        /\ (~arg.blob.hasRaw /\ ~arg.blob.hasZlib) =>
              ret.err = Err("unknown blob data", "")

\* the value before position i of a sequence of absolute values: 0 at the start
Before(abs, i) == IF i = 1 THEN 0 ELSE abs[i - 1]

\* the arrays of a DenseNodes group describe the same number of nodes
DenseWellFormed(dn) ==
    /\ Len(dn.lat) = Len(dn.id)
    /\ Len(dn.lon) = Len(dn.id)
    /\ (dn.hasInfo /\ Len(dn.ts) > 0) => Len(dn.ts) = Len(dn.id)

\* C16: for a DenseNodes group whose arrays have the same length,
\* parseDenseNodes emits exactly len(id) nodes in array order; the id, stored
\* latitude, stored longitude and, when timestamps are present, timestamp
\* units of node i are the prefix sums of the arrays from a base of 0 (each
\* value is the one before plus the delta; id = [10, 5, -3] yields 10, 15,
\* 12); without timestamps every node carries the no-timestamp value.
C16_DensePrefixSums ==
    (call = "parseDenseNodes" /\ DenseWellFormed(arg.dn)) =>
        LET dn == arg.dn
            q == ret.q
        IN  /\ ~ret.panic
            /\ Len(q) = Len(dn.id)
            /\ \A i \in 1..Len(q) :
                  /\ q[i].kind = "Node"
                  /\ q[i].id = Before([k \in 1..Len(q) |-> q[k].id], i) + dn.id[i]
                  /\ q[i].lat = Before([k \in 1..Len(q) |-> q[k].lat], i)
                                + 100 * dn.lat[i]
                  /\ q[i].lon = Before([k \in 1..Len(q) |-> q[k].lon], i)
                                + 100 * dn.lon[i]
                  /\ IF dn.hasInfo /\ Len(dn.ts) > 0
                     THEN /\ q[i].ts.set
                          /\ q[i].ts.units =
                                Before([k \in 1..Len(q) |-> q[k].ts.units], i)
                                + 1000 * dn.ts[i]
                     ELSE q[i].ts = [set |-> FALSE, units |-> 0]
            /\ dn.id = <<10, 5, 0 - 3>> =>
                  [k \in 1..Len(q) |-> q[k].id] = <<10, 15, 12>>

\* the group with id = [10, 5, -3] and timestamps was decoded into three nodes
C16_Witness ==
    /\ call = "parseDenseNodes"
    /\ arg.dn.id = <<10, 5, 0 - 3>>
    /\ Len(arg.dn.lat) = 3
    /\ Len(arg.dn.ts) = 3
    /\ Len(ret.q) = 3
    /\ ret.q[3].ts.set

\* C17: for every way the emitted NodeIDs are as many as refs and each is the
\* one before plus the delta, starting from 0 for every way, so that one
\* way's refs do not reach the next way's NodeIDs; the way id is passed
\* through (refs = [100, 1, 1, -1] yields 100, 101, 102, 101).
C17_WayRefs ==
    call = "parseWays" =>
        /\ ~ret.panic
        /\ Len(ret.q) = Len(arg.ways)
        /\ \A k \in 1..Len(ret.q) :
              LET way == arg.ways[k]
                  out == ret.q[k]
              IN  /\ out.kind = "Way"
                  /\ out.id = way.id
                  /\ Len(out.nodeIDs) = Len(way.refs)
                  /\ \A i \in 1..Len(way.refs) :
                        out.nodeIDs[i] = Before(out.nodeIDs, i) + way.refs[i]
                  /\ way.refs = <<100, 1, 1, 0 - 1>> =>
                        out.nodeIDs = <<100, 101, 102, 101>>

\* two ways were decoded, the second after the way with refs [100, 1, 1, -1]
C17_Witness ==
    /\ call = "parseWays"
    /\ Len(arg.ways) = 2
    /\ arg.ways[1].refs = <<100, 1, 1, 0 - 1>>
    /\ Len(ret.q) = 2
    /\ ret.q[2].nodeIDs = <<1, 101>>

\* the member type the format assigns to a value of types
TypeName(t) ==
    IF t = "NODE" THEN "NodeType" ELSE IF t = "WAY" THEN "WayType" ELSE "RelationType"

\* C18: decoding a block with a relation whose memids, types and roles_sid
\* have the same length n (role indices inside the stringtable) emits the
\* relation with n members, member i having the id of the member before plus
\* memids[i], the type of types[i] and the role stringtable[roles_sid[i]];
\* when the three arrays differ in length the decoding of the block returns
\* an error and emits nothing.
C18_Members ==
    call = "Decode" =>
        LET rel == arg.rel
            cnt == Len(rel.memids)
        IN  IF Len(rel.types) = cnt /\ Len(rel.roles_sid) = cnt
            THEN (\A i \in 1..cnt : rel.roles_sid[i] < 3) =>
                    /\ ~ret.panic
                    /\ ret.err = NoErr
                    /\ Len(ret.objs) = 1
                    /\ ret.objs[1].kind = "Relation"
                    /\ Len(ret.objs[1].members) = cnt
                    /\ \A i \in 1..cnt :
                          LET ms == ret.objs[1].members
                          IN  /\ ms[i].id = Before([k \in 1..cnt |-> ms[k].id], i)
                                            + rel.memids[i]
                              /\ ms[i].type = TypeName(rel.types[i])
                              /\ ms[i].role = <<"", "outer", "inner">>[rel.roles_sid[i] + 1]
            ELSE /\ ~ret.panic
                 /\ ret.err # NoErr
                 /\ ret.objs = <<>>

\* the reader, every worker and the serializer have ended
AllTasksDone ==
    /\ rpc = "done"
    /\ spc = "done"
    /\ \A w \in Workers : wpc[w] = "done"

\* C14: once the terminal result (the end of the stream, a reader error or a
\* decoding error) has been returned, and the consumer goes on draining the
\* serializer channel, the reader, every worker and the serializer
\* eventually end (a process that died of a panic has no task left).
C14_AllTasksTerminate == TerminalDelivered ~> (crashed \/ AllTasksDone)

\* the workers that hold a pair: received and not yet handed to the serializer
Holding == {w \in Workers : wpc[w] \in {"work", "send"}}

\* C15: at most N + 1 pairs have been read by the reader and not yet
\* received by the serializer; each of those that left the reader is held by
\* a worker of its own, so a worker holds at most one; and the reader reads
\* nothing while the pair it read before waits to be accepted by its worker.
C15_Backpressure ==
    /\ [](started = "ok" =>
             /\ readCount - recvCount <= n + 1
             /\ readCount - recvCount
                   = Cardinality(Holding) + (IF rpc = "send" THEN 1 ELSE 0))
    /\ [][rpc = "send" => readCount' = readCount]_vars

\* with two workers, three pairs are in flight: one in each worker and one in
\* the reader's hand
C15_Witness ==
    /\ n = 2
    /\ readCount - recvCount = 3
    /\ rpc = "send"
    /\ Cardinality(Holding) = 2

\* frame idx of f is an OSMData block whose payload has a sparse node
HasSparse(f, idx) ==
    /\ idx \in 2..Len(f)
    /\ f[idx].type = "OSMData"
    /\ f[idx].blob.hasRaw
    /\ f[idx].blob.raw.ok
    /\ \E g \in 1..Len(f[idx].blob.raw.msg.groups) :
          Len(f[idx].blob.raw.msg.groups[g].nodes) > 0

\* C19: a block holding sparse nodes is decoded into one Node for each of
\* them and the decoding goes on: the process does not stop, the worker
\* sends the nodes with a nil error, and for the file with the one sparse
\* node (id 42) the results are that node, without timestamp, and then the
\* end of the stream.
C19_SparseNodes ==
    \A idx \in decoded :
        HasSparse(file, idx) =>
            /\ ~crashed
            /\ \A w \in Workers :
                  wout[w].blk = idx =>
                      /\ wout[w].e = NoErr
                      /\ Len(wout[w].i) >= 1
                      /\ wout[w].i[1].kind = "Node"
                      /\ wout[w].i[1].id = 42
                      /\ wout[w].i[1].ts = [set |-> FALSE, units |-> 0]
            /\ (Len(file) = 2 /\ Len(results) >= 2) =>
                  /\ results[1].i.kind = "Node"
                  /\ results[1].i.id = 42
                  /\ results[2].e = EOF

\* the panic of a frame that is being read or was decoded
PanicSource ==
    \/ IsPanic(readFileBlock(file, rdIdx, offset).err)
    \/ \E idx \in decoded : DataDecode(file[idx].blob).panic

\* C20: no task sends on a closed channel, no channel is closed twice, and
\* the serializer does not receive from a closed output: the reader is not
\* about to send on, or to close, an input that is closed, and the inputs are
\* closed by the reader's closing loop only; a worker that holds a pair has
\* its output open, and a closed output belongs to a worker that has ended;
\* the serializer is not about to send on or close the closed serializer
\* channel, and is not waiting on an output that is closed; and a panic never
\* stems from a channel operation.
C20_ChannelDiscipline ==
    /\ rpc = "send" => ~inClosed[rtarget]
    /\ (rpc = "close" /\ closeIdx < n) => ~inClosed[closeIdx + 1]
    /\ \A w \in Workers :
          /\ inClosed[w] => (rpc \in {"close", "done"} /\ w <= closeIdx)
          /\ wpc[w] \in {"work", "send"} => ~outClosed[w]
          /\ outClosed[w] <=> wpc[w] = "done"
    /\ spc \in {"emit", "err", "close"} => ~serClosed
    /\ serClosed <=> spc = "done"
    /\ spc = "recv" => ~outClosed[outputIndex + 1]
    /\ crashed => PanicSource

\* the reader closed both inputs, both workers closed their outputs and the
\* serializer closed its channel
C20_Witness ==
    /\ n = 2
    /\ ~crashed
    /\ serClosed
    /\ \A w \in Workers : inClosed[w] /\ outClosed[w]
    /\ decoded # {}

====
